---- MODULE Spec2Model ----
(***************************************************************************)
(* mini-cloud: the per-node resource ledger (resourcemanager), the         *)
(* per-node lifecycle manager (manager) and the cluster scheduler          *)
(* (cluster), modelled as state machines.                                  *)
(*                                                                         *)
(* Numbers.  ResourceSpec.CPU is a float64; the model uses whole cores,    *)
(* on which float64 arithmetic is exact.  ResourceSpec.Memory is a Go int  *)
(* (two's complement, wraps on overflow); the model keeps the wrap-around  *)
(* with a narrower word whose largest value is MaxInt.                     *)
(***************************************************************************)
EXTENDS Integers, Sequences, FiniteSets, TLC

VARIABLES
    allocatedCPU,       \* node -> (reservation id -> reserved cores)
    allocatedMemory,    \* node -> (reservation id -> reserved MB)
    state,              \* node -> (backend id -> ContainerInfo)
    assignments,        \* ClusterManager.assignments: id -> node name
    now,                \* wall clock, in sweep intervals
    nextID,             \* number of ids generated so far (uuid / backend)
    last,               \* the most recent completed call and what it returned
    pc,                 \* concurrent Allocate: position of each thread
    mu,                 \* concurrent Allocate: holder of ResourceManager.mu
    request,            \* concurrent Allocate: the spec each thread asks for
    used,               \* concurrent Allocate: each thread's usedCPU/usedMem
    result,             \* concurrent Allocate: what each call returned
    locks,              \* goroutines: the holder of cm.mu, m.mutex, rm.mu
    frame               \* goroutines: the local variables of each call

vars == <<allocatedCPU, allocatedMemory, state, assignments, now, nextID,
          last, pc, mu, request, used, result, locks, frame>>

ledgerVars == <<allocatedCPU, allocatedMemory>>
threadVars == <<pc, mu, request, used, result, locks, frame>>
allocVars == <<mu, request, used, result>>

-----------------------------------------------------------------------------
(* Bounds of the model *)

MaxInt == 1048575          \* largest value of the model's int word
MaxCalls == 2              \* ids generated (Schedule / Provision calls)
MaxTime == 3               \* clock ticks
NThreads == 3              \* concurrent Allocate callers

MinInt == -MaxInt - 1

\* Two's-complement wrap-around of a Go int result.
Wrap(x) == ((x - MinInt) % (2 * (MaxInt + 1))) + MinInt

-----------------------------------------------------------------------------
(* Topology: the two nodes main() builds *)

Nodes == {"node1", "node2"}

TotalCPU == [n \in Nodes |-> IF n = "node1" THEN 4 ELSE 8]
TotalMemory == [n \in Nodes |-> IF n = "node1" THEN 8192 ELSE 16384]

-----------------------------------------------------------------------------
(* Go maps *)

EmptyMap == [k \in {} |-> 0]

MapSet(m, k, v) == [x \in (DOMAIN m) \cup {k} |-> IF x = k THEN v ELSE m[x]]

MapDelete(m, k) == [x \in (DOMAIN m) \ {k} |-> m[x]]

RECURSIVE SumCPUOver(_, _)
\* for _, v := range rm.allocatedCPU { usedCPU += v }, over the keys in ks
SumCPUOver(m, ks) ==
    IF ks = {} THEN 0
    ELSE LET k == CHOOSE x \in ks : TRUE
         IN  m[k] + SumCPUOver(m, ks \ {k})

SumCPU(m) == SumCPUOver(m, DOMAIN m)

RECURSIVE SumMemoryOver(_, _)
\* for _, v := range rm.allocatedMemory { usedMem += v }, over the keys in
\* ks; usedMem is an int and wraps
SumMemoryOver(m, ks) ==
    IF ks = {} THEN 0
    ELSE LET k == CHOOSE x \in ks : TRUE
         IN  Wrap(m[k] + SumMemoryOver(m, ks \ {k}))

SumMemory(m) == SumMemoryOver(m, DOMAIN m)

-----------------------------------------------------------------------------
(* resourcemanager.ResourceManager, as functions of one node's two maps *)

ResourceSpec(cpu, mem) == [CPU |-> cpu, Memory |-> mem]

\* The capacity test shared by CanAllocate and Allocate.
Fits(n, cpuMap, memMap, spec) ==
    /\ SumCPU(cpuMap) + spec.CPU <= TotalCPU[n]
    /\ Wrap(SumMemory(memMap) + spec.Memory) <= TotalMemory[n]

CanAllocate(n, spec) == Fits(n, allocatedCPU[n], allocatedMemory[n], spec)

Usage(n) == ResourceSpec(SumCPU(allocatedCPU[n]), SumMemory(allocatedMemory[n]))

AllocatedCPUSum(n) == SumCPU(allocatedCPU[n])

AllocatedMemorySum(n) == SumMemory(allocatedMemory[n])

\* The caller-visible record of a completed call.
NoInfo == [ID |-> "", Name |-> "", CPU |-> 0, MemoryMB |-> 0,
           CreatedAt |-> 0, TTL |-> 0]

\* The maps a call left as they were.
Same ==
    {c \in {"cpu", "mem", "state", "assignments"} :
        \/ c = "cpu" /\ allocatedCPU' = allocatedCPU
        \/ c = "mem" /\ allocatedMemory' = allocatedMemory
        \/ c = "state" /\ state' = state
        \/ c = "assignments" /\ assignments' = assignments}

\* op: the call; node: the node it acted on; key: the id it reserved under;
\* id: the backend id it was given or got; err: the error returned ("" is
\* nil); info: the record returned or looked up (NoInfo is nil); eligible:
\* the nodes that could take the request, each with its score; failed: the
\* backend calls that failed during the call; same: the maps the call left
\* unchanged.
Call(op, n, key, id, err, info, elig, failed) ==
    [op |-> op, node |-> n, key |-> key, id |-> id, err |-> err,
     info |-> info, eligible |-> elig, failed |-> failed, same |-> Same]

NoCall ==
    [op |-> "none", node |-> "", key |-> "", id |-> "", err |-> "",
     info |-> NoInfo, eligible |-> EmptyMap, failed |-> {}, same |-> {}]

\* Calls are made one at a time: the caller has taken the previous result.
Returned == last = NoCall

\* The caller takes the result of the call (the gateway writes its response).
Return ==
    /\ last # NoCall
    /\ last' = NoCall
    /\ UNCHANGED <<ledgerVars, state, assignments, now, nextID, threadVars>>

\* ResourceManager.Allocate(id, spec) on node n, directly.
Allocate(n, id, spec) ==
    /\ Returned
    /\ UNCHANGED <<state, assignments, now, nextID, threadVars>>
    /\ IF Fits(n, allocatedCPU[n], allocatedMemory[n], spec)
       THEN /\ allocatedCPU' = [allocatedCPU EXCEPT ![n] = MapSet(@, id, spec.CPU)]
            /\ allocatedMemory' = [allocatedMemory EXCEPT ![n] = MapSet(@, id, spec.Memory)]
            /\ last' = Call("Allocate", n, id, "", "", NoInfo, EmptyMap, {})
       ELSE /\ UNCHANGED ledgerVars
            /\ last' = Call("Allocate", n, id, "", "false", NoInfo, EmptyMap, {})

\* A Release that empties the ledger.
Release_Reset(n, id) ==
    /\ Returned
    /\ allocatedCPU' = [allocatedCPU EXCEPT ![n] = EmptyMap]
    /\ allocatedMemory' = [allocatedMemory EXCEPT ![n] = EmptyMap]
    /\ UNCHANGED <<state, assignments, now, nextID, threadVars>>
    /\ last' = Call("Release", n, id, "", "", NoInfo, EmptyMap, {})

\* ResourceManager.Release(id) on node n, directly.
Release(n, id) ==
    /\ Returned
    /\ allocatedCPU' = [allocatedCPU EXCEPT ![n] = MapDelete(@, id)]
    /\ allocatedMemory' = [allocatedMemory EXCEPT ![n] = MapDelete(@, id)]
    /\ UNCHANGED <<state, assignments, now, nextID, threadVars>>
    /\ last' = Call("Release", n, id, "", "", NoInfo, EmptyMap, {})

-----------------------------------------------------------------------------
(* Initial state: NewResourceManager, NewManager, NewClusterManager *)

Threads == 1 .. NThreads

\* Every sync.Mutex of the program unlocked (0 is no holder).
NoLocks ==
    [cluster |-> 0, manager |-> [n \in Nodes |-> 0],
     ledger |-> [n \in Nodes |-> 0]]

\* The local variables of a goroutine that is not inside a call.
NoFrame ==
    [op |-> "", node |-> "", id |-> "", key |-> "", order |-> << >>,
     best |-> "", min |-> 0, cpu |-> 0, ttl |-> 0, at |-> 0,
     visited |-> {}, err |-> "", spec |-> [CPU |-> 0, Memory |-> 0]]

Init ==
    /\ allocatedCPU = [n \in Nodes |-> EmptyMap]
    /\ allocatedMemory = [n \in Nodes |-> EmptyMap]
    /\ state = [n \in Nodes |-> EmptyMap]
    /\ assignments = EmptyMap
    /\ now = 0
    /\ nextID = 0
    /\ last = NoCall
    /\ pc = [t \in Threads |-> "idle"]
    /\ mu = 0
    /\ request = [t \in Threads |-> ResourceSpec(0, 0)]
    /\ used = [t \in Threads |-> ResourceSpec(0, 0)]
    /\ result = [t \in Threads |-> FALSE]
    /\ locks = NoLocks
    /\ frame = [t \in Threads |-> NoFrame]

-----------------------------------------------------------------------------
(* Specification of one ledger driven directly by Allocate / Release *)

LedgerIDs == {"a", "b", "c"}
LedgerCPUs == {0, 1, 4}
LedgerMemories == {0, 1, 8192, MaxInt}

NextLedger ==
    \/ \E id \in LedgerIDs, c \in LedgerCPUs, m \in LedgerMemories :
          Allocate("node1", id, ResourceSpec(c, m))
    \/ \E id \in LedgerIDs : Release("node1", id)
    \/ Return

SpecLedger == Init /\ [][NextLedger]_vars

\* C1: in every reachable state of a ledger driven by Allocate and Release
\* with non-negative amounts, the reserved CPU sums to at most TotalCPU and
\* the reserved memory sums to at most TotalMemory.
C1_NeverOverCommitted ==
    \A n \in Nodes :
        /\ Usage(n).CPU <= TotalCPU[n]
        /\ Usage(n).Memory <= TotalMemory[n]

-----------------------------------------------------------------------------
(* Specification of NThreads goroutines, each calling Allocate once on the *)
(* ledger of node1 with its own id.  The body of Allocate is split at the  *)
(* points where another goroutine could run if the mutex did not stop it.  *)

ThreadID(t) == "t" \o ToString(t)

ConcSpecs == {ResourceSpec(2, 2048), ResourceSpec(1, 4096)}

\* go rm.Allocate(id, spec)
AllocateCall(t, spec) ==
    /\ pc[t] = "idle"
    /\ pc' = [pc EXCEPT ![t] = "lock"]
    /\ request' = [request EXCEPT ![t] = spec]
    /\ UNCHANGED <<ledgerVars, state, assignments, now, nextID, last, mu,
                   used, result, locks, frame>>

\* A Lock that does not wait for the holder to unlock.
MutexFree_NoWait(m) == TRUE

\* sync.Mutex: Lock returns only while no one holds the mutex.
MutexFree(m) == m = 0

\* rm.mu.Lock()
AllocateLock(t) ==
    /\ pc[t] = "lock"
    /\ MutexFree(mu)
    /\ mu' = t
    /\ pc' = [pc EXCEPT ![t] = "sum"]
    /\ UNCHANGED <<ledgerVars, state, assignments, now, nextID, last,
                   request, used, result, locks, frame>>

\* the two range loops that compute usedCPU and usedMem
AllocateSum(t) ==
    /\ pc[t] = "sum"
    /\ used' = [used EXCEPT ![t] = Usage("node1")]
    /\ pc' = [pc EXCEPT ![t] = "check"]
    /\ UNCHANGED <<ledgerVars, state, assignments, now, nextID, last, mu,
                   request, result, locks, frame>>

\* the capacity test, the two map writes, the return and the deferred Unlock
AllocateReserve(t) ==
    /\ pc[t] = "check"
    /\ IF \/ used[t].CPU + request[t].CPU > TotalCPU["node1"]
          \/ Wrap(used[t].Memory + request[t].Memory) > TotalMemory["node1"]
       THEN /\ result' = [result EXCEPT ![t] = FALSE]
            /\ UNCHANGED ledgerVars
       ELSE /\ allocatedCPU' = [allocatedCPU EXCEPT
                   !["node1"] = MapSet(@, ThreadID(t), request[t].CPU)]
            /\ allocatedMemory' = [allocatedMemory EXCEPT
                   !["node1"] = MapSet(@, ThreadID(t), request[t].Memory)]
            /\ result' = [result EXCEPT ![t] = TRUE]
    /\ mu' = 0
    /\ pc' = [pc EXCEPT ![t] = "done"]
    /\ UNCHANGED <<state, assignments, now, nextID, last, request, used,
                   locks, frame>>

NextConc ==
    \/ \E t \in Threads, spec \in ConcSpecs : AllocateCall(t, spec)
    \/ \E t \in Threads : AllocateLock(t)
    \/ \E t \in Threads : AllocateSum(t)
    \/ \E t \in Threads : AllocateReserve(t)

SpecConc == Init /\ [][NextConc]_vars

\* The calls run one after another in the given order on an empty ledger.
RECURSIVE SerialRun(_, _, _, _)
SerialRun(order, cpuMap, memMap, res) ==
    IF order = << >> THEN [cpu |-> cpuMap, mem |-> memMap, res |-> res]
    ELSE LET t == Head(order)
             ok == Fits("node1", cpuMap, memMap, request[t])
         IN  SerialRun(Tail(order),
                       IF ok THEN MapSet(cpuMap, ThreadID(t), request[t].CPU)
                             ELSE cpuMap,
                       IF ok THEN MapSet(memMap, ThreadID(t), request[t].Memory)
                             ELSE memMap,
                       [res EXCEPT ![t] = ok])

SerialOrders ==
    {o \in [1 .. NThreads -> Threads] :
        \A i, j \in 1 .. NThreads : i # j => o[i] # o[j]}

AllDone == \A t \in Threads : pc[t] = "done"

Successes == Cardinality({t \in Threads : result[t]})

\* All requests are the same and together ask for exactly one request more
\* than node1 has.
OneTooMany ==
    \E r \in ConcSpecs :
        /\ \A t \in Threads : request[t] = r
        /\ \/ /\ NThreads * r.CPU = TotalCPU["node1"] + r.CPU
              /\ (NThreads - 1) * r.Memory <= TotalMemory["node1"]
           \/ /\ NThreads * r.Memory = TotalMemory["node1"] + r.Memory
              /\ (NThreads - 1) * r.CPU <= TotalCPU["node1"]

\* C2: concurrent Allocate calls with distinct ids behave as a serial order
\* of the calls: the sums a call tested are still the ledger's sums when it
\* reserves, the ledger is never over-committed, the results and the final
\* ledger are those of some serial order, and of N equal requests that ask
\* for exactly one request too many exactly N-1 succeed.
C2_AtomicAllocate ==
    /\ \A t \in Threads : pc[t] = "check" => used[t] = Usage("node1")
    /\ Usage("node1").CPU <= TotalCPU["node1"]
    /\ Usage("node1").Memory <= TotalMemory["node1"]
    /\ AllDone =>
          \E o \in SerialOrders :
              LET r == SerialRun(o, EmptyMap, EmptyMap,
                                 [t \in Threads |-> FALSE])
              IN  /\ r.res = result
                  /\ r.cpu = allocatedCPU["node1"]
                  /\ r.mem = allocatedMemory["node1"]
    /\ (AllDone /\ OneTooMany) => Successes = NThreads - 1

\* All calls returned, the requests were one too many, one call was refused.
C2_Witness == AllDone /\ OneTooMany /\ Successes = NThreads - 1

-----------------------------------------------------------------------------
(* manager.Manager of one node.  Every method holds m.mutex from entry to  *)
(* return, so a call is one step.  The execution backend is outside the    *)
(* program: each backend call succeeds or fails as the step's input says.  *)
(* A ContainerInfo keeps the fields the program reads again (Image and     *)
(* Status are only stored).                                                *)

ContainerSpec(name, cpu, mem, ttl) ==
    [Name |-> name, CPU |-> cpu, Memory |-> mem, TTL |-> ttl]

\* resp.ID of the k-th container the backend creates.
BackendID(k) == "d" \o ToString(k)

\* uuid.New().String() of the k-th Schedule that selected a node.
UUID(k) == "u" \o ToString(k)

\* The ids a caller can name: those handed out so far and one unknown id.
KnownIDs == {BackendID(k) : k \in 1 .. nextID} \cup {"x"}

ContainerInfo(id, spec) ==
    [ID |-> id, Name |-> spec.Name, CPU |-> spec.CPU, MemoryMB |-> spec.Memory,
     CreatedAt |-> now, TTL |-> spec.TTL]

NodeMaps(n) ==
    [cpu |-> allocatedCPU[n], mem |-> allocatedMemory[n], state |-> state[n]]

\* The calling action stores a method's result in the node's maps and in last.
Store(op, n, r, elig) ==
    /\ allocatedCPU' = [allocatedCPU EXCEPT ![n] = r.cpu]
    /\ allocatedMemory' = [allocatedMemory EXCEPT ![n] = r.mem]
    /\ state' = [state EXCEPT ![n] = r.state]
    /\ last' = Call(op, n, r.key, r.id, r.err, r.info, elig, r.failed)

\* A ProvisionContainer that forgets the Release on its start-failure path.
ProvisionReleases_NotOnStart(phase) == phase \in {"pull", "create"}

\* The failed backend phases after which ProvisionContainer releases.
ProvisionReleases(phase) == phase \in {"pull", "create", "start"}

ProvisionError(phase) ==
    CASE phase = "pull" -> "failed to pull image"
      [] phase = "create" -> "failed to create container"
      [] phase = "start" -> "failed to start container"
      [] OTHER -> ""

\* Manager.ProvisionContainer(ctx, spec) as a function of the node's maps
\* m = [cpu, mem, state]; fail names the first backend call that fails (""
\* if none does) and id is the id the backend gives the created unit.
ProvisionResult(n, m, spec, fail, id) ==
    LET rSpec == ResourceSpec(spec.CPU, spec.Memory)
        cpu1 == MapSet(m.cpu, spec.Name, spec.CPU)
        mem1 == MapSet(m.mem, spec.Name, spec.Memory)
        rel == ProvisionReleases(fail)
    IN  IF ~Fits(n, m.cpu, m.mem, rSpec)                    \* CanAllocate
        THEN [cpu |-> m.cpu, mem |-> m.mem, state |-> m.state, key |-> "",
              id |-> "", info |-> NoInfo, failed |-> {},
              err |-> "insufficient resources to allocate container"]
        ELSE IF ~Fits(n, m.cpu, m.mem, rSpec)               \* Allocate
        THEN [cpu |-> m.cpu, mem |-> m.mem, state |-> m.state, key |-> "",
              id |-> "", info |-> NoInfo, failed |-> {},
              err |-> "failed to reserve resources"]
        ELSE IF fail # ""
        THEN [cpu |-> IF rel THEN MapDelete(cpu1, spec.Name) ELSE cpu1,
              mem |-> IF rel THEN MapDelete(mem1, spec.Name) ELSE mem1,
              state |-> m.state, key |-> spec.Name, id |-> "",
              info |-> NoInfo, failed |-> {fail}, err |-> ProvisionError(fail)]
        ELSE [cpu |-> cpu1, mem |-> mem1,
              state |-> MapSet(m.state, id, ContainerInfo(id, spec)),
              key |-> spec.Name, id |-> id, info |-> ContainerInfo(id, spec),
              failed |-> {}, err |-> ""]

\* Manager.ProvisionContainer(ctx, spec) called on node n's manager.
ProvisionContainer(n, spec, fail) ==
    /\ Returned
    /\ nextID < MaxCalls
    /\ ~CanAllocate(n, ResourceSpec(spec.CPU, spec.Memory)) => fail = ""
    /\ UNCHANGED <<assignments, now, threadVars>>
    /\ LET r == ProvisionResult(n, NodeMaps(n), spec, fail,
                                BackendID(nextID + 1))
       IN  /\ nextID' = IF r.key # "" /\ fail \in {"", "start"}
                        THEN nextID + 1 ELSE nextID
           /\ Store("ProvisionContainer", n, r, EmptyMap)

\* A TerminateContainer that releases as soon as the backend stopped the unit.
TerminateReleases_AfterStop(stopOK, removeOK) == stopOK

\* TerminateContainer releases and deletes once stop and remove both succeeded.
TerminateReleases(stopOK, removeOK) == stopOK /\ removeOK

\* A TerminateContainer that releases under the record's key, the backend
\* id, and not under the name the reservation was made with.
TerminateResult_ReleasesByID(m, id, outcome) ==
    IF id \notin DOMAIN m.state
    THEN [cpu |-> m.cpu, mem |-> m.mem, state |-> m.state, key |-> "",
          id |-> id, info |-> NoInfo, failed |-> {},
          err |-> "container not found"]
    ELSE LET info == m.state[id]
             stopOK == outcome # "stop"
             removeOK == outcome = "ok"
             rel == TerminateReleases(stopOK, removeOK)
         IN  [cpu |-> IF rel THEN MapDelete(m.cpu, id) ELSE m.cpu,
              mem |-> IF rel THEN MapDelete(m.mem, id) ELSE m.mem,
              state |-> IF rel THEN MapDelete(m.state, id) ELSE m.state,
              key |-> info.Name, id |-> id, info |-> info,
              failed |-> IF ~stopOK THEN {"stop"}
                         ELSE IF ~removeOK THEN {"remove"} ELSE {},
              err |-> IF ~stopOK THEN "stop error"
                      ELSE IF ~removeOK THEN "remove error" ELSE ""]

\* Manager.TerminateContainer(ctx, id) as a function of the node's maps;
\* outcome names the backend call that fails ("ok" if none does).
TerminateResult(m, id, outcome) ==
    IF id \notin DOMAIN m.state
    THEN [cpu |-> m.cpu, mem |-> m.mem, state |-> m.state, key |-> "",
          id |-> id, info |-> NoInfo, failed |-> {},
          err |-> "container not found"]
    ELSE LET info == m.state[id]
             stopOK == outcome # "stop"
             removeOK == outcome = "ok"
             rel == TerminateReleases(stopOK, removeOK)
         IN  [cpu |-> IF rel THEN MapDelete(m.cpu, info.Name) ELSE m.cpu,
              mem |-> IF rel THEN MapDelete(m.mem, info.Name) ELSE m.mem,
              state |-> IF rel THEN MapDelete(m.state, id) ELSE m.state,
              key |-> info.Name, id |-> id, info |-> info,
              failed |-> IF ~stopOK THEN {"stop"}
                         ELSE IF ~removeOK THEN {"remove"} ELSE {},
              err |-> IF ~stopOK THEN "stop error"
                      ELSE IF ~removeOK THEN "remove error" ELSE ""]

\* Manager.TerminateContainer(ctx, id) called on node n's manager.
TerminateContainer(n, id, outcome) ==
    /\ Returned
    /\ id \in KnownIDs
    /\ id \notin DOMAIN state[n] => outcome = "ok"
    /\ UNCHANGED <<assignments, now, nextID, threadVars>>
    /\ Store("TerminateContainer", n,
             TerminateResult(NodeMaps(n), id, outcome), EmptyMap)

\* A sweep that takes a TTL of zero for a lifetime of zero.
Expired_ZeroTTL(info, t) == info.CreatedAt + info.TTL < t

\* A sweep that lets a record live one interval longer than its TTL.
Expired_Late(info, t) == info.TTL > 0 /\ info.CreatedAt + info.TTL + 1 < t

\* info.TTL > 0 && info.CreatedAt.Add(info.TTL).Before(now)
Expired(info, t) == info.TTL > 0 /\ info.CreatedAt + info.TTL < t

ExpiredIDs(n) == {id \in DOMAIN state[n] : Expired(state[n][id], now)}

TerminateOutcomes == {"ok", "stop", "remove"}

\* One pass of the sweep's loop body: TerminateContainer(ctx, id) on the
\* maps m = [cpu, mem, state, failed], failed collecting the backend calls
\* that failed so far.
SweepStep(m, id, outcome) ==
    LET r == TerminateResult(m, id, outcome)
    IN  [cpu |-> r.cpu, mem |-> r.mem, state |-> r.state,
         failed |-> m.failed \cup r.failed]

RECURSIVE SweepResult(_, _, _)
\* the range loop of cleanupExpiredContainers over the expired records
SweepResult(m, ids, outcome) ==
    IF ids = {}
    THEN [cpu |-> m.cpu, mem |-> m.mem, state |-> m.state, key |-> "",
          id |-> "", info |-> NoInfo, failed |-> m.failed, err |-> ""]
    ELSE LET id == CHOOSE x \in ids : TRUE
         IN  CHOOSE res \in
                 {SweepResult(next, ids \ {id}, outcome) :
                     next \in {SweepStep(m, id, outcome[id])}} : TRUE

\* cleanupExpiredContainers of node n when the backend answers the
\* termination of each expired record as outcome says.  The call's eligible
\* records are those the loop found expired.
Sweep(n, outcome) ==
    /\ Returned
    /\ UNCHANGED <<assignments, now, nextID, threadVars>>
    /\ \E r \in {SweepResult([cpu |-> allocatedCPU[n],
                              mem |-> allocatedMemory[n],
                              state |-> state[n], failed |-> {}],
                             ExpiredIDs(n), outcome)} :
           Store("cleanupExpiredContainers", n, r,
                 [id \in ExpiredIDs(n) |-> state[n][id]])

\* One tick of the ticker started by StartExpirationLoop on node n; the
\* backend decides the outcome of each termination.
cleanupExpiredContainers(n) ==
    \E outcome \in [ExpiredIDs(n) -> TerminateOutcomes] : Sweep(n, outcome)

\* Time passes.
Tick ==
    /\ Returned
    /\ now < MaxTime
    /\ now' = now + 1
    /\ UNCHANGED <<ledgerVars, state, assignments, nextID, last, threadVars>>

-----------------------------------------------------------------------------
(* Specification of one node's manager driven directly *)

Names == {"a", "b"}
Requests == {ResourceSpec(1, 2048), ResourceSpec(8, 16384)}
ManagerRequests == {ResourceSpec(1, 2048), ResourceSpec(3, 6144)}
TTLs == {0, 2}
ProvisionOutcomes == {"", "pull", "create", "start"}

BackendIDs == {BackendID(k) : k \in 1 .. MaxCalls}

NextManager ==
    \/ \E name \in Names, r \in ManagerRequests, ttl \in TTLs,
          fail \in ProvisionOutcomes :
          ProvisionContainer("node1",
                             ContainerSpec(name, r.CPU, r.Memory, ttl), fail)
    \/ \E id \in BackendIDs \cup {"x"}, outcome \in TerminateOutcomes :
          TerminateContainer("node1", id, outcome)
    \/ Return

SpecManager == Init /\ [][NextManager]_vars

\* C4: when ProvisionContainer fails after its Allocate succeeded (image
\* pull, create or start failed), the call returns an error, the ledger
\* holds no reservation under spec.Name on return and no workload record was
\* added to the manager's state.
C4_FailedProvisionReleases ==
    (last.op = "ProvisionContainer" /\ last.failed # {}) =>
        /\ last.err # ""
        /\ last.info = NoInfo
        /\ last.key \notin DOMAIN allocatedCPU[last.node]
        /\ last.key \notin DOMAIN allocatedMemory[last.node]
        /\ "state" \in last.same

\* A provision failed at the backend's start phase and left no reservation.
C4_Witness ==
    /\ last.op = "ProvisionContainer"
    /\ last.failed = {"start"}
    /\ last.key \in Names
    /\ last.key \notin DOMAIN allocatedCPU[last.node]

\* C10: if backend stop or remove fails during Manager.TerminateContainer,
\* the call returns an error and the record and the ledger are unchanged, so
\* a retry on which the backend succeeds terminates the workload; the
\* reservation is released and the record deleted only when both backend
\* calls succeeded.
C10_FailedTerminateKeepsState ==
    last.op = "TerminateContainer" =>
        /\ last.failed # {} =>
              /\ last.err \in {"stop error", "remove error"}
              /\ {"cpu", "mem", "state"} \subseteq last.same
              /\ last.id \in DOMAIN state[last.node]
              /\ state[last.node][last.id] = last.info
              /\ LET retry == TerminateResult(NodeMaps(last.node), last.id, "ok")
                 IN  retry.err = "" /\ last.id \notin DOMAIN retry.state
        /\ ~({"cpu", "mem", "state"} \subseteq last.same) =>
              /\ last.failed = {}
              /\ last.err = ""
              /\ last.id \notin DOMAIN state[last.node]
              /\ last.key \notin DOMAIN allocatedCPU[last.node]

\* The backend stopped a workload but failed to remove it; the record and
\* its reservation are still there.
C10_Witness ==
    /\ last.op = "TerminateContainer"
    /\ last.failed = {"remove"}
    /\ last.id \in DOMAIN state[last.node]
    /\ last.key \in DOMAIN allocatedCPU[last.node]

-----------------------------------------------------------------------------
(* cluster.ClusterManager.  Schedule and TerminateContainer hold cm.mu     *)
(* from entry to return, so each is one step.  The order in which a range  *)
(* loop visits cm.nodes is an input of the step.                           *)

MaxFloat64 == 1073741824    \* stands above every leftover the model computes

NodeOrders ==
    {o \in [1 .. Cardinality(Nodes) -> Nodes] :
        \A i, j \in 1 .. Cardinality(Nodes) : i # j => o[i] # o[j]}

\* A scheduler that prefers the node with the most room left.
Leftover_WorstFit(n, spec) ==
    0 - (1024 * (TotalCPU[n] - (AllocatedCPUSum(n) + spec.CPU))
         + Wrap(TotalMemory[n] - Wrap(AllocatedMemorySum(n) + spec.Memory)))

\* leftover := leftoverCPU + leftoverMem/1024.0, scaled by 1024 so that it
\* stays an integer (the scaling keeps the order of the scores).
Leftover(n, spec) ==
    1024 * (TotalCPU[n] - (AllocatedCPUSum(n) + spec.CPU))
    + Wrap(TotalMemory[n] - Wrap(AllocatedMemorySum(n) + spec.Memory))

\* A selection loop that takes every node into account.
Admits_Always(n, spec) == TRUE

\* if node.Resources.CanAllocate(...) in the selection loop
Admits(n, spec) == CanAllocate(n, spec)

\* The score of the spec, times 1024: what placing the request on n would
\* leave of n's CPU, plus what it would leave of n's memory over 1024.
Score(n, spec) ==
    1024 * (TotalCPU[n] - SumCPU(allocatedCPU[n]) - spec.CPU)
    + (TotalMemory[n] - SumMemory(allocatedMemory[n]) - spec.Memory)

RECURSIVE SelectNode(_, _, _, _)
\* the range loop of Schedule: selectedNode after visiting the nodes in order
SelectNode(order, spec, selectedNode, minLeftover) ==
    IF order = << >> THEN selectedNode
    ELSE LET node == Head(order)
             leftover == Leftover(node, spec)
         IN  IF Admits(node, spec) /\ leftover < minLeftover
             THEN SelectNode(Tail(order), spec, node, leftover)
             ELSE SelectNode(Tail(order), spec, selectedNode, minLeftover)

ScheduleOutcomes == {"ok", "create", "start", "start+remove"}

\* ClusterManager.Schedule(ctx, spec).  order: the order of the range loop;
\* outcome: the backend calls that fail.  The node "" stands for nil.
Schedule(spec, order, outcome) ==
    /\ Returned
    /\ nextID < MaxCalls
    /\ (\A n \in Nodes : ~CanAllocate(n, ResourceSpec(spec.CPU, spec.Memory)))
          => outcome = "ok"
    /\ UNCHANGED <<assignments, now, threadVars>>
    /\ LET rSpec == ResourceSpec(spec.CPU, spec.Memory)
           eligible == [n \in {x \in Nodes : Fits(x, allocatedCPU[x],
                                                  allocatedMemory[x], rSpec)}
                           |-> Score(n, rSpec)]
           selectedNode == SelectNode(order, rSpec, "", MaxFloat64)
           containerID == UUID(nextID + 1)
           id == BackendID(nextID + 1)
           info == ContainerInfo(id, [spec EXCEPT !.Name = containerID])
       IN  IF selectedNode = ""
           THEN /\ UNCHANGED <<ledgerVars, state, nextID>>
                /\ last' = Call("Schedule", "", "", "",
                                "no node has enough resources", NoInfo,
                                eligible, {})
           ELSE LET n == selectedNode
                    cpu1 == MapSet(allocatedCPU[n], containerID, spec.CPU)
                    mem1 == MapSet(allocatedMemory[n], containerID, spec.Memory)
                IN  IF ~Fits(n, allocatedCPU[n], allocatedMemory[n], rSpec)
                    THEN \* Allocate returned false
                         /\ UNCHANGED <<ledgerVars, state>>
                         /\ nextID' = nextID + 1
                         /\ last' = Call("Schedule", n, "", "",
                                         "failed to allocate resources",
                                         NoInfo, eligible, {})
                    ELSE /\ nextID' = nextID + 1
                         /\ CASE outcome = "create" ->
                                   \* Release(containerID); return nil, err
                                   Store("Schedule", n,
                                     [cpu |-> MapDelete(cpu1, containerID),
                                      mem |-> MapDelete(mem1, containerID),
                                      state |-> state[n], key |-> containerID,
                                      id |-> "", info |-> NoInfo,
                                      failed |-> {"create"},
                                      err |-> "create error"], eligible)
                              [] outcome = "start+remove" ->
                                   \* RemoveContainer failed: return nil, err
                                   Store("Schedule", n,
                                     [cpu |-> cpu1, mem |-> mem1,
                                      state |-> state[n], key |-> containerID,
                                      id |-> id, info |-> NoInfo,
                                      failed |-> {"start", "remove"},
                                      err |-> "remove error"], eligible)
                              [] outcome = "start" ->
                                   \* the inner err (nil) shadows the start
                                   \* error: Release; return nil, err
                                   Store("Schedule", n,
                                     [cpu |-> MapDelete(cpu1, containerID),
                                      mem |-> MapDelete(mem1, containerID),
                                      state |-> state[n], key |-> containerID,
                                      id |-> id, info |-> NoInfo,
                                      failed |-> {"start"}, err |-> ""],
                                     eligible)
                              [] OTHER ->
                                   \* Manager.AddContainer(id, info)
                                   Store("Schedule", n,
                                     [cpu |-> cpu1, mem |-> mem1,
                                      state |-> MapSet(state[n], id, info),
                                      key |-> containerID, id |-> id,
                                      info |-> info, failed |-> {},
                                      err |-> ""], eligible)


RECURSIVE ClusterTerminateResult_NilOnUnknown(_, _, _, _)
\* A TerminateContainer that answers nil when no node terminated the id.
ClusterTerminateResult_NilOnUnknown(order, id, outcome, c) ==
    IF order = << >>
    THEN [cpu |-> c.cpu, mem |-> c.mem, state |-> c.state, node |-> "",
          failed |-> c.failed, err |-> ""]
    ELSE LET node == Head(order)
             r == TerminateResult([cpu |-> c.cpu[node], mem |-> c.mem[node],
                                   state |-> c.state[node]], id, outcome)
         IN  IF r.err = ""
             THEN [cpu |-> [c.cpu EXCEPT ![node] = MapDelete(r.cpu, id)],
                   mem |-> [c.mem EXCEPT ![node] = MapDelete(r.mem, id)],
                   state |-> [c.state EXCEPT ![node] = r.state],
                   node |-> node, failed |-> c.failed, err |-> ""]
             ELSE ClusterTerminateResult_NilOnUnknown(Tail(order), id, outcome,
                      [cpu |-> [c.cpu EXCEPT ![node] = r.cpu],
                       mem |-> [c.mem EXCEPT ![node] = r.mem],
                       state |-> [c.state EXCEPT ![node] = r.state],
                       failed |-> c.failed \cup r.failed])

RECURSIVE ClusterTerminateResult(_, _, _, _)
\* the range loop of ClusterManager.TerminateContainer over the nodes in
\* order; c = [cpu, mem, state] holds the maps of every node.
ClusterTerminateResult(order, id, outcome, c) ==
    IF order = << >>
    THEN [cpu |-> c.cpu, mem |-> c.mem, state |-> c.state, node |-> "",
          failed |-> c.failed, err |-> "container not found"]
    ELSE LET node == Head(order)
             r == TerminateResult([cpu |-> c.cpu[node], mem |-> c.mem[node],
                                   state |-> c.state[node]], id, outcome)
         IN  IF r.err = ""
             THEN \* node.Resources.Release(id); return nil
                  [cpu |-> [c.cpu EXCEPT ![node] = MapDelete(r.cpu, id)],
                   mem |-> [c.mem EXCEPT ![node] = MapDelete(r.mem, id)],
                   state |-> [c.state EXCEPT ![node] = r.state],
                   node |-> node, failed |-> c.failed, err |-> ""]
             ELSE ClusterTerminateResult(Tail(order), id, outcome,
                      [cpu |-> [c.cpu EXCEPT ![node] = r.cpu],
                       mem |-> [c.mem EXCEPT ![node] = r.mem],
                       state |-> [c.state EXCEPT ![node] = r.state],
                       failed |-> c.failed \cup r.failed])

\* ClusterManager.TerminateContainer(ctx, id)
ClusterTerminateContainer(id, order, outcome) ==
    /\ Returned
    /\ id \in KnownIDs
    /\ (\A n \in Nodes : id \notin DOMAIN state[n]) => outcome = "ok"
    /\ UNCHANGED <<assignments, now, nextID, threadVars>>
    /\ LET r == ClusterTerminateResult(order, id, outcome,
                    [cpu |-> allocatedCPU, mem |-> allocatedMemory,
                     state |-> state, failed |-> {}])
       IN  /\ allocatedCPU' = r.cpu
           /\ allocatedMemory' = r.mem
           /\ state' = r.state
           /\ last' = Call("ClusterTerminateContainer", r.node, "", id, r.err,
                           NoInfo, EmptyMap, r.failed)

\* ClusterManager.GetContainerStatus(ctx, id): the error and the record.
GetContainerStatusResult(id) ==
    IF id \notin DOMAIN assignments
    THEN [err |-> "container not found", info |-> NoInfo]
    ELSE LET nodeName == assignments[id]
         IN  IF nodeName \notin Nodes
             THEN [err |-> "node not found for container", info |-> NoInfo]
             ELSE IF id \notin DOMAIN state[nodeName]
             THEN [err |-> "container not found", info |-> NoInfo]
             ELSE [err |-> "", info |-> state[nodeName][id]]

\* ClusterManager.GetContainerStatus(ctx, id) called.
GetContainerStatus(id) ==
    /\ Returned
    /\ id \in KnownIDs
    /\ UNCHANGED <<ledgerVars, state, assignments, now, nextID, threadVars>>
    /\ LET r == GetContainerStatusResult(id)
       IN  last' = Call("GetContainerStatus", "", "", id, r.err, r.info,
                        EmptyMap, {})

\* The orders in which a range loop can visit the keys of a map.
RangeOrders(keys) ==
    {o \in [1 .. Cardinality(keys) -> keys] :
        \A i, j \in 1 .. Cardinality(keys) : i # j => o[i] # o[j]}

\* A listing that leaves out the record its loop visits first.
ListActiveContainers_SkipsFirst(n, order) ==
    [i \in 1 .. Len(order) - 1 |-> state[n][order[i + 1]]]

\* Manager.ListActiveContainers(ctx) of node n: the slice built by the range
\* loop over m.state when the loop visits the ids in the given order.
ListActiveContainers(n, order) ==
    [i \in 1 .. Len(order) |-> state[n][order[i]]]

RECURSIVE ListAllContainersResult(_, _)
\* the range loop of ListAllContainers: all = append(all, containers...)
ListAllContainersResult(order, idOrder) ==
    IF order = << >> THEN << >>
    ELSE ListActiveContainers(Head(order), idOrder[Head(order)])
             \o ListAllContainersResult(Tail(order), idOrder)

\* ClusterManager.ListAllContainers(ctx); the slice it returns is the
\* call's info.
ListAllContainers ==
    /\ Returned
    /\ UNCHANGED <<ledgerVars, state, assignments, now, nextID, threadVars>>
    /\ \E order \in NodeOrders :
       \E idOrder \in {f \in [Nodes -> UNION {RangeOrders(DOMAIN state[n]) :
                                                  n \in Nodes}] :
                          \A n \in Nodes :
                              f[n] \in RangeOrders(DOMAIN state[n])} :
           last' = Call("ListAllContainers", "", "", "", "",
                        ListAllContainersResult(order, idOrder), EmptyMap, {})

-----------------------------------------------------------------------------
(* Specification of the cluster behind the request gateway *)

UUIDs == {UUID(k) : k \in 1 .. MaxCalls}

GatewayIDs == BackendIDs \cup UUIDs \cup {"x"}

Next ==
    \/ \E r \in Requests, ttl \in TTLs, order \in NodeOrders,
          outcome \in ScheduleOutcomes :
          Schedule(ContainerSpec("web", r.CPU, r.Memory, ttl), order, outcome)
    \/ \E id \in BackendIDs \cup {"x"}, order \in NodeOrders,
          outcome \in TerminateOutcomes :
          ClusterTerminateContainer(id, order, outcome)
    \/ \E id \in BackendIDs \cup {"x"} : GetContainerStatus(id)
    \/ ListAllContainers
    \/ \E n \in Nodes : cleanupExpiredContainers(n)
    \/ Tick
    \/ Return

Spec == Init /\ [][Next]_vars

\* C3: every Schedule that returns after a backend failure, without having
\* stored a record, released the reservation it made under the generated
\* id: the selected node's ledger holds nothing under that id and is as it
\* was before the call.
C3_FailedScheduleReleases ==
    (last.op = "Schedule" /\ last.failed # {}) =>
        /\ last.key \notin DOMAIN allocatedCPU[last.node]
        /\ last.key \notin DOMAIN allocatedMemory[last.node]
        /\ {"cpu", "mem"} \subseteq last.same

\* C5: a Schedule during which backend create or start failed returns an
\* error, and a Schedule that returns no error returns a record that is
\* stored in the selected node's manager.
C5_ScheduleReportsFailure ==
    last.op = "Schedule" =>
        /\ last.failed # {} => last.err # ""
        /\ last.err = "" =>
              /\ last.info # NoInfo
              /\ last.info.ID \in DOMAIN state[last.node]
              /\ state[last.node][last.info.ID] = last.info

\* The nodes whose manager holds a record under id.
Holders(id) == {n \in Nodes : id \in DOMAIN state[n]}

\* C6: the assignment map has an entry for an id exactly when one node's
\* manager holds a record under that id, and the entry names that node.
C6_AssignmentsMatchRecords ==
    \A id \in GatewayIDs :
        /\ id \in DOMAIN assignments <=> Cardinality(Holders(id)) = 1
        /\ id \in DOMAIN assignments => Holders(id) = {assignments[id]}

\* C7: while a scheduled workload has not been terminated, the cluster's
\* GetContainerStatus on its id returns its record, not an error.
C7_StatusOfScheduled ==
    \A n \in Nodes : \A id \in DOMAIN state[n] :
        GetContainerStatusResult(id) = [err |-> "", info |-> state[n][id]]

\* C8: the node Schedule selects, and so the node it reserves on, is one
\* that passed the capacity test in that call, and when no node passes it
\* returns the no-capacity error and changes no ledger, no manager state and
\* no assignment.
C8_AdmissionControl ==
    last.op = "Schedule" =>
        /\ last.node # "" => last.node \in DOMAIN last.eligible
        /\ last.key # "" => last.node \in DOMAIN last.eligible
        /\ DOMAIN last.eligible = {} =>
              /\ last.err = "no node has enough resources"
              /\ last.key = ""
              /\ last.same = {"cpu", "mem", "state", "assignments"}

\* No node could take the request and Schedule said so.
C8_Witness ==
    /\ last.op = "Schedule"
    /\ DOMAIN last.eligible = {}
    /\ last.err = "no node has enough resources"
    /\ \E n \in Nodes : DOMAIN state[n] # {}

\* C9: Schedule places the workload on an eligible node of minimal score;
\* with both nodes empty and a request of 1 core and 2048 MB the scores are
\* 9 and 21 and node1 (4 cores, 8192 MB) is selected.
C9_BestFit ==
    (last.op = "Schedule" /\ last.key # "") =>
        /\ last.node \in DOMAIN last.eligible
        /\ \A n \in DOMAIN last.eligible :
               last.eligible[last.node] <= last.eligible[n]
        /\ last.eligible = [n \in Nodes |-> IF n = "node1" THEN 9 * 1024
                                            ELSE 21 * 1024]
              => last.node = "node1"

\* The example: both nodes were eligible with scores 9 and 21, node1 won.
C9_Witness ==
    /\ last.op = "Schedule"
    /\ last.key # ""
    /\ last.eligible = [n \in Nodes |-> IF n = "node1" THEN 9 * 1024
                                        ELSE 21 * 1024]
    /\ last.node = "node1"

\* C11: ClusterManager.TerminateContainer reports not-found only when no
\* node's manager held a record for the id; when backend stop or remove
\* failed on the owning node, the error returned is that backend error.
C11_TerminateReportsBackendError ==
    last.op = "ClusterTerminateContainer" =>
        /\ last.err = "container not found" => last.failed = {}
        /\ "stop" \in last.failed => last.err = "stop error"
        /\ "remove" \in last.failed => last.err = "remove error"

\* The answer of Manager.TerminateContainer on maps m that hold no record
\* under the id: not found, nothing changed, no backend call failed.
NotFoundResult(m, id) ==
    [cpu |-> m.cpu, mem |-> m.mem, state |-> m.state, key |-> "", id |-> id,
     info |-> NoInfo, failed |-> {}, err |-> "container not found"]

\* C12: terminating an id that no node's manager knows returns the
\* not-found error from every manager and from the cluster, whatever the
\* backend would answer (it is not called), and leaves every reservation,
\* every record and the assignment map as they were.
C12_UnknownTerminateChangesNothing ==
    [][(/\ Returned
        /\ last'.op = "ClusterTerminateContainer"
        /\ \A n \in Nodes : last'.id \notin DOMAIN state[n])
       => /\ last'.err = "container not found"
          /\ last'.failed = {}
          /\ last'.same = {"cpu", "mem", "state", "assignments"}
          /\ UNCHANGED <<allocatedCPU, allocatedMemory, state, assignments>>
          /\ \A n \in Nodes, outcome \in TerminateOutcomes :
                TerminateResult(NodeMaps(n), last'.id, outcome)
                    = NotFoundResult(NodeMaps(n), last'.id)
          /\ \A order \in NodeOrders, outcome \in TerminateOutcomes :
                LET r == ClusterTerminateResult(order, last'.id, outcome,
                             [cpu |-> allocatedCPU, mem |-> allocatedMemory,
                              state |-> state, failed |-> {}])
                IN  /\ r.err = "container not found"
                    /\ r.cpu = allocatedCPU /\ r.mem = allocatedMemory
                    /\ r.state = state /\ r.failed = {}]_vars

\* An id nobody knows was terminated while a node held a record and a
\* reservation; the call answered not-found.
C12_Witness ==
    /\ last.op = "ClusterTerminateContainer"
    /\ last.id = "x"
    /\ last.err = "container not found"
    /\ last.failed = {}
    /\ \E n \in Nodes : DOMAIN state[n] # {} /\ DOMAIN allocatedCPU[n] # {}

-----------------------------------------------------------------------------
(* The cluster with its expiration loops running.  StartExpirationLoop     *)
(* gives every node a goroutine whose ticker calls cleanupExpiredContainers*)
(* every interval whatever the request handlers do, so a sweep of each     *)
(* node happens again and again; the backend does not refuse to stop and   *)
(* remove for ever, and every call returns.                                *)

\* A sweep of node n during which every backend stop and remove succeeds.
SweepSucceeds(n) == Sweep(n, [id \in ExpiredIDs(n) |-> "ok"])

\* The calls that write records or reservations, the sweeps and the clock
\* (GetContainerStatus and ListAllContainers write nothing).
NextSweep ==
    \/ \E r \in Requests, ttl \in TTLs, order \in NodeOrders,
          outcome \in ScheduleOutcomes :
          Schedule(ContainerSpec("web", r.CPU, r.Memory, ttl), order, outcome)
    \/ \E id \in BackendIDs \cup {"x"}, order \in NodeOrders,
          outcome \in TerminateOutcomes :
          ClusterTerminateContainer(id, order, outcome)
    \/ \E n \in Nodes : cleanupExpiredContainers(n)
    \/ Tick
    \/ Return

SpecSweep ==
    /\ Init
    /\ [][NextSweep]_vars
    /\ WF_vars(Return)
    /\ \A n \in Nodes : SF_vars(SweepSucceeds(n))

\* The k-th scheduled workload is tracked by node n and its TTL has run out.
ExpiredOn(n, k) ==
    /\ BackendID(k) \in DOMAIN state[n]
    /\ state[n][BackendID(k)].TTL > 0
    /\ state[n][BackendID(k)].CreatedAt + state[n][BackendID(k)].TTL < now

\* Node n neither lists the k-th workload nor holds its reservation.
GoneFrom(n, k) ==
    /\ BackendID(k) \notin DOMAIN state[n]
    /\ UUID(k) \notin DOMAIN allocatedCPU[n]
    /\ UUID(k) \notin DOMAIN allocatedMemory[n]

\* C13: with the sweep running and the backend stopping and removing, a
\* workload with a non-zero TTL whose createdAt + ttl has passed is
\* eventually absent from its node's active list (an expired record stays
\* expired until it is removed, so: whenever some record is expired, a
\* time comes at which none is), its reservation is released in the step
\* that removes it, and it is gone at the end of any sweep of its node that
\* starts after the expiry; a workload with a TTL of 2 intervals created at
\* time 0 is gone once a sweep ran after 3 intervals.
C13_ExpiredEventuallyGone ==
    /\ (\E n \in Nodes, k \in 1 .. MaxCalls : ExpiredOn(n, k))
           ~> (\A n \in Nodes, k \in 1 .. MaxCalls : ~ExpiredOn(n, k))
    /\ [][\A n \in Nodes : \A k \in 1 .. MaxCalls :
             (ExpiredOn(n, k) /\ BackendID(k) \notin DOMAIN state'[n])
                 => GoneFrom(n, k)']_vars
    /\ [][\A n \in Nodes : \A k \in 1 .. MaxCalls :
             (ExpiredOn(n, k) /\ SweepSucceeds(n)) => GoneFrom(n, k)']_vars
    /\ [][\A n \in Nodes : \A k \in 1 .. MaxCalls :
             (/\ BackendID(k) \in DOMAIN state[n]
              /\ state[n][BackendID(k)].TTL = 2
              /\ state[n][BackendID(k)].CreatedAt = 0
              /\ now = 3
              /\ SweepSucceeds(n)) => GoneFrom(n, k)']_vars

\* A workload with a TTL of 2 created at time 0 was swept at time 3 and is
\* gone, reservation included.
C13_Witness ==
    /\ last.op = "cleanupExpiredContainers"
    /\ last.failed = {}
    /\ now = 3
    /\ \E k \in 1 .. MaxCalls :
          /\ GoneFrom(last.node, k)
          /\ BackendID(k) \in DOMAIN last.eligible
          /\ last.eligible[BackendID(k)].TTL = 2
          /\ last.eligible[BackendID(k)].CreatedAt = 0

\* C14: the sweep terminates, or tries to terminate, a workload only if its
\* TTL is non-zero and createdAt + ttl lies before the time the sweep
\* started; a record with TTL = 0 outlives every sweep, and a sweep of one
\* node removes nothing from another.
C14_SweepOnlyExpired ==
    [][(Returned /\ last'.op = "cleanupExpiredContainers") =>
          /\ \A id \in DOMAIN last'.eligible :
                /\ id \in DOMAIN state[last'.node]
                /\ state[last'.node][id].TTL > 0
                /\ state[last'.node][id].CreatedAt
                       + state[last'.node][id].TTL < now
          /\ \A n \in Nodes : \A id \in DOMAIN state[n] :
                id \notin DOMAIN state'[n] =>
                    /\ n = last'.node
                    /\ state[n][id].TTL > 0
                    /\ state[n][id].CreatedAt + state[n][id].TTL < now
          /\ \A n \in Nodes : \A id \in DOMAIN state[n] :
                state[n][id].TTL = 0 =>
                    /\ id \in DOMAIN state'[n]
                    /\ state'[n][id] = state[n][id]]_vars

\* A sweep removed an expired workload and left one with TTL = 0 that is
\* just as old.
C14_Witness ==
    /\ last.op = "cleanupExpiredContainers"
    /\ "state" \notin last.same
    /\ \E id \in DOMAIN state[last.node] :
          /\ state[last.node][id].TTL = 0
          /\ \E old \in DOMAIN last.eligible :
                /\ old \notin DOMAIN state[last.node]
                /\ last.eligible[old].CreatedAt
                       = state[last.node][id].CreatedAt

\* The number of places at which a slice holds the record.
Occurrences(list, info) ==
    Cardinality({i \in 1 .. Len(list) : list[i] = info})

\* C15: with no concurrent mutation ListAllContainers returns exactly the
\* union of every node's active list: each record a node tracks appears
\* exactly once and the slice holds nothing else.
C15_ListAllIsUnion ==
    last.op = "ListAllContainers" =>
        /\ \A n \in Nodes : \A id \in DOMAIN state[n] :
               Occurrences(last.info, state[n][id]) = 1
        /\ \A i \in 1 .. Len(last.info) :
               \E n \in Nodes : \E id \in DOMAIN state[n] :
                   last.info[i] = state[n][id]
        /\ \A n \in Nodes :
               \A order \in RangeOrders(DOMAIN state[n]) :
                   \A i \in 1 .. Len(order) :
                       Occurrences(last.info,
                                   ListActiveContainers(n, order)[i]) = 1

\* Both nodes track a workload and the listing holds the two records.
C15_Witness ==
    /\ last.op = "ListAllContainers"
    /\ \A n \in Nodes : DOMAIN state[n] # {}
    /\ Len(last.info) = 2

\* C16: Release(id) reports no error, changes nothing when the id has no
\* reservation, leaves no reservation under the id, leaves the reservations
\* of every other id as they were, and a second Release(id) would change
\* nothing more.
C16_ReleaseIdempotentSelective ==
    [][(Returned /\ last'.op = "Release") =>
          LET n == last'.node
              id == last'.key
          IN  /\ last'.err = ""
              /\ (id \notin DOMAIN allocatedCPU[n]
                  /\ id \notin DOMAIN allocatedMemory[n])
                    => UNCHANGED ledgerVars
              /\ id \notin DOMAIN allocatedCPU'[n]
              /\ id \notin DOMAIN allocatedMemory'[n]
              /\ DOMAIN allocatedCPU'[n] = DOMAIN allocatedCPU[n] \ {id}
              /\ DOMAIN allocatedMemory'[n] = DOMAIN allocatedMemory[n] \ {id}
              /\ \A other \in DOMAIN allocatedCPU'[n] :
                    allocatedCPU'[n][other] = allocatedCPU[n][other]
              /\ \A other \in DOMAIN allocatedMemory'[n] :
                    allocatedMemory'[n][other] = allocatedMemory[n][other]
              /\ MapDelete(allocatedCPU'[n], id) = allocatedCPU'[n]
              /\ MapDelete(allocatedMemory'[n], id) = allocatedMemory'[n]
              /\ \A m \in Nodes \ {n} :
                    /\ allocatedCPU'[m] = allocatedCPU[m]
                    /\ allocatedMemory'[m] = allocatedMemory[m]]_vars

\* One reservation was released and another is still there.
C16_Witness ==
    /\ last.op = "Release"
    /\ "cpu" \notin last.same
    /\ last.key \notin DOMAIN allocatedCPU[last.node]
    /\ DOMAIN allocatedCPU[last.node] # {}
    /\ DOMAIN allocatedMemory[last.node] = DOMAIN allocatedCPU[last.node]

\* What the records node n tracks add up to.
RecordsCPU(n) == SumCPU([id \in DOMAIN state[n] |-> state[n][id].CPU])

RecordsMemory(n) ==
    SumMemory([id \in DOMAIN state[n] |-> state[n][id].MemoryMB])

\* C19: after any sequence of Manager.ProvisionContainer and
\* Manager.TerminateContainer on one node, whatever names the callers
\* choose, the CPU and the memory of the records in the manager's state sum
\* to at most the node's TotalCPU and TotalMemory, and every record is
\* backed by a reservation under its name.
C19_RecordsWithinCapacity ==
    \A n \in Nodes :
        /\ RecordsCPU(n) <= TotalCPU[n]
        /\ RecordsMemory(n) <= TotalMemory[n]
        /\ \A id \in DOMAIN state[n] :
               state[n][id].Name \in DOMAIN allocatedCPU[n]

\* The ledger usage of the maps a call would leave on node n.
UsageOf(r, n) == ResourceSpec(SumCPU(r.cpu[n]), SumMemory(r.mem[n]))

\* C20: Schedule followed by a successful TerminateContainer of the record
\* it returned is a round trip: the terminate, run on what a successful
\* Schedule left, reports no error, removes the record from the node's
\* manager and leaves the usage of every ledger as it was before the
\* Schedule; and whenever a TerminateContainer succeeds the record and the
\* reservation under the generated id are gone and the node's usage went
\* down by what the record holds.
C20_ScheduleTerminateRoundTrip ==
    [][/\ (/\ Returned
           /\ last'.op = "Schedule"
           /\ last'.err = ""
           /\ last'.info # NoInfo)
          => \A order \in NodeOrders :
                LET r == ClusterTerminateResult(order, last'.info.ID, "ok",
                             [cpu |-> allocatedCPU', mem |-> allocatedMemory',
                              state |-> state', failed |-> {}])
                IN  /\ r.err = ""
                    /\ r.node = last'.node
                    /\ last'.info.ID \in DOMAIN state'[last'.node]
                    /\ last'.info.ID \notin DOMAIN r.state[last'.node]
                    /\ last'.key \in DOMAIN allocatedCPU'[last'.node]
                    /\ last'.key \notin DOMAIN r.cpu[last'.node]
                    /\ last'.key \notin DOMAIN r.mem[last'.node]
                    /\ \A n \in Nodes : UsageOf(r, n) = Usage(n)
                    /\ r.state = state
       /\ (/\ Returned
           /\ last'.op = "ClusterTerminateContainer"
           /\ last'.err = "")
          => LET n == last'.node
                 id == last'.id
             IN  /\ n \in Nodes
                 /\ id \in DOMAIN state[n]
                 /\ id \notin DOMAIN state'[n]
                 /\ state[n][id].Name \notin DOMAIN allocatedCPU'[n]
                 /\ state[n][id].Name \notin DOMAIN allocatedMemory'[n]
                 /\ SumCPU(allocatedCPU'[n])
                        = SumCPU(allocatedCPU[n]) - state[n][id].CPU
                 /\ SumMemory(allocatedMemory'[n])
                        = SumMemory(allocatedMemory[n]) - state[n][id].MemoryMB
      ]_vars

\* A scheduled workload was terminated and its node's ledger is empty again.
C20_Witness ==
    /\ last.op = "ClusterTerminateContainer"
    /\ last.err = ""
    /\ last.id \in BackendIDs
    /\ "cpu" \notin last.same
    /\ "state" \notin last.same
    /\ Usage(last.node) = ResourceSpec(0, 0)
    /\ state[last.node] = EmptyMap

-----------------------------------------------------------------------------
(* The goroutines of the running program, one step per stretch of code     *)
(* that no other goroutine can observe in part.  main() starts one         *)
(* expiration loop per node; the gateway runs each request on a goroutine  *)
(* of its own.  locks holds, for every sync.Mutex, the goroutine that      *)
(* holds it; frame[t] holds the local variables of the call goroutine t is *)
(* in and pc[t] its position.  A Lock is a step of its own, taken only     *)
(* while the mutex is free; an Unlock (deferred or not) is part of the     *)
(* step that ends the critical section.  A handler that has not yet got    *)
(* cm.mu holds nothing and has done nothing, so a call begins with the     *)
(* step that gets it; a sweep that has not yet got m.mutex holds nothing   *)
(* and has only read the clock, so it begins with the step that gets       *)
(* m.mutex, with the time it read before.                                  *)

\* The goroutine of each node's expiration loop; the others serve requests.
Sweepers == [n \in Nodes |-> IF n = "node1" THEN 1 ELSE 2]
SweeperNode(t) == CHOOSE n \in Nodes : Sweepers[n] = t
Handlers == Threads \ {Sweepers[n] : n \in Nodes}

\* What a handler asks Schedule for, and the ttl it asks with.
GoRequest == ResourceSpec(1, 2048)
GoTTL == 2

\* The ids a handler asks about: the ones handed out so far.
GoIDs == {BackendID(k) : k \in 1 .. nextID}

\* The positions at which a goroutine is inside m.mutex.Lock() and inside
\* rm.mu.Lock(), and the position each Lock returns to.
ManagerLockPCs == {"term.lock", "relock", "add.lock",
                   "list.lock", "mstatus.lock"}
LedgerLockPCs == {"can.lock", "cpusum.lock", "memsum.lock", "alloc.lock",
                  "release.lock", "mrelease.lock", "crelease.lock"}

AfterLock(p) ==
    CASE p = "term.lock" -> "term.look"
      [] p = "relock" -> "sweep.loop"
      [] p = "add.lock" -> "add"
      [] p = "list.lock" -> "list"
      [] p = "mstatus.lock" -> "mstatus"
      [] p = "can.lock" -> "can"
      [] p = "cpusum.lock" -> "cpusum"
      [] p = "memsum.lock" -> "memsum"
      [] p = "alloc.lock" -> "alloc"
      [] p = "release.lock" -> "release"
      [] p = "mrelease.lock" -> "mrelease"
      [] p = "crelease.lock" -> "crelease"

\* The variables no goroutine step writes.
goFixed == <<assignments, last, allocVars>>

\* m.mutex.Lock() of the node the goroutine is working on; the sweep, back
\* from TerminateContainer, reports err and is done with this id
MutexLock(t) ==
    /\ pc[t] \in ManagerLockPCs
    /\ MutexFree(locks.manager[frame[t].node])
    /\ locks' = [locks EXCEPT !.manager[frame[t].node] = t]
    /\ pc' = [pc EXCEPT ![t] = AfterLock(pc[t])]
    /\ frame' = IF pc[t] = "relock"
                THEN [frame EXCEPT ![t].id = "", ![t].err = ""]
                ELSE frame
    /\ UNCHANGED <<ledgerVars, state, now, nextID, goFixed>>

\* rm.mu.Lock() of the node the goroutine is working on
LedgerLock(t) ==
    /\ pc[t] \in LedgerLockPCs
    /\ MutexFree(locks.ledger[frame[t].node])
    /\ locks' = [locks EXCEPT !.ledger[frame[t].node] = t]
    /\ pc' = [pc EXCEPT ![t] = AfterLock(pc[t])]
    /\ UNCHANGED <<ledgerVars, state, now, nextID, frame, goFixed>>

\* A call returns: its goroutine is idle again and has no locals.
Idle(t) ==
    /\ pc' = [pc EXCEPT ![t] = "idle"]
    /\ frame' = [frame EXCEPT ![t] = NoFrame]

\* The goroutine goes on at position p with locals f.
Goto(t, p, f) ==
    /\ pc' = [pc EXCEPT ![t] = p]
    /\ frame' = [frame EXCEPT ![t] = f]

\* ---- ClusterManager.Schedule ----

\* cm.mu.Lock() and the first pass of the selection loop's header
BeginSchedule(t, r, ttl, order) ==
    /\ t \in Handlers
    /\ pc[t] = "idle"
    /\ nextID < MaxCalls
    /\ MutexFree(locks.cluster)
    /\ locks' = [locks EXCEPT !.cluster = t]
    /\ Goto(t, "can.lock",
            [NoFrame EXCEPT !.op = "Schedule", !.spec = r, !.ttl = ttl,
                            !.order = order,
                            !.node = Head(order), !.min = MaxFloat64])
    /\ UNCHANGED <<ledgerVars, state, now, nextID, goFixed>>

\* The end of one pass of the selection loop with locals f: the next node,
\* or the code after the loop.  unlocked: the call returned (no node).
ScheduleNext(f) ==
    IF Tail(f.order) # << >>
    THEN [pc |-> "can.lock", unlocked |-> FALSE,
          frame |-> [f EXCEPT !.order = Tail(f.order),
                              !.node = Head(Tail(f.order))]]
    ELSE IF f.best = ""
    THEN [pc |-> "idle", unlocked |-> TRUE, frame |-> NoFrame]
    ELSE [pc |-> "alloc.lock", unlocked |-> FALSE,
          frame |-> [f EXCEPT !.order = << >>, !.node = f.best]]

\* the body of node.Resources.CanAllocate and the test on its result
ScheduleCanAllocate(t) ==
    /\ pc[t] = "can"
    /\ LET f == frame[t]
           n == f.node
           r == IF CanAllocate(n, f.spec)
                THEN [pc |-> "cpusum.lock", unlocked |-> FALSE, frame |-> f]
                ELSE ScheduleNext(f)
       IN  /\ locks' = [locks EXCEPT !.ledger[n] = 0,
                                     !.cluster = IF r.unlocked THEN 0 ELSE @]
           /\ Goto(t, r.pc, r.frame)
    /\ UNCHANGED <<ledgerVars, state, now, nextID, goFixed>>

\* the body of node.Resources.AllocatedCPUSum
ScheduleCPUSum(t) ==
    /\ pc[t] = "cpusum"
    /\ locks' = [locks EXCEPT !.ledger[frame[t].node] = 0]
    /\ Goto(t, "memsum.lock",
            [frame[t] EXCEPT !.cpu = AllocatedCPUSum(frame[t].node)])
    /\ UNCHANGED <<ledgerVars, state, now, nextID, goFixed>>

\* the body of node.Resources.AllocatedMemorySum, the leftover and the
\* comparison with minLeftover
ScheduleMemorySum(t) ==
    /\ pc[t] = "memsum"
    /\ LET f == frame[t]
           n == f.node
           leftover ==
               1024 * (TotalCPU[n] - (f.cpu + f.spec.CPU))
               + Wrap(TotalMemory[n]
                      - Wrap(AllocatedMemorySum(n) + f.spec.Memory))
           g == IF leftover < f.min
                THEN [f EXCEPT !.best = n, !.min = leftover, !.cpu = 0]
                ELSE [f EXCEPT !.cpu = 0]
           r == ScheduleNext(g)
       IN  /\ locks' = [locks EXCEPT !.ledger[n] = 0,
                                     !.cluster = IF r.unlocked THEN 0 ELSE @]
           /\ Goto(t, r.pc, r.frame)
    /\ UNCHANGED <<ledgerVars, state, now, nextID, goFixed>>

\* uuid.New() and the body of selectedNode.Resources.Allocate
ScheduleAllocate(t) ==
    /\ pc[t] = "alloc"
    /\ LET f == frame[t]
           n == f.node
           containerID == UUID(nextID + 1)
       IN  /\ nextID' = nextID + 1
           /\ IF Fits(n, allocatedCPU[n], allocatedMemory[n], f.spec)
              THEN /\ allocatedCPU' = [allocatedCPU EXCEPT
                          ![n] = MapSet(@, containerID, f.spec.CPU)]
                   /\ allocatedMemory' = [allocatedMemory EXCEPT
                          ![n] = MapSet(@, containerID, f.spec.Memory)]
                   /\ locks' = [locks EXCEPT !.ledger[n] = 0]
                   /\ Goto(t, "create",
                           [f EXCEPT !.key = containerID, !.min = 0,
                                     !.id = BackendID(nextID + 1)])
              ELSE /\ UNCHANGED ledgerVars
                   /\ locks' = [locks EXCEPT !.ledger[n] = 0, !.cluster = 0]
                   /\ Idle(t)
    /\ UNCHANGED <<state, now, goFixed>>

\* selectedNode.Docker.CreateContainer
ScheduleCreate(t, ok) ==
    /\ pc[t] = "create"
    /\ Goto(t, IF ok THEN "start" ELSE "release.lock", frame[t])
    /\ UNCHANGED <<ledgerVars, state, now, nextID, locks, goFixed>>

\* selectedNode.Docker.StartContainer; on success the record is built
\* (CreatedAt: time.Now()) and AddContainer is called
ScheduleStart(t, ok) ==
    /\ pc[t] = "start"
    /\ Goto(t, IF ok THEN "add.lock" ELSE "remove",
            [frame[t] EXCEPT !.at = IF ok THEN now ELSE 0])
    /\ UNCHANGED <<ledgerVars, state, now, nextID, locks, goFixed>>

\* selectedNode.Docker.RemoveContainer after a failed start; its failure
\* returns with the reservation in place
ScheduleRemove(t, ok) ==
    /\ pc[t] = "remove"
    /\ IF ok
       THEN /\ Goto(t, "release.lock", frame[t])
            /\ UNCHANGED locks
       ELSE /\ Idle(t)
            /\ locks' = [locks EXCEPT !.cluster = 0]
    /\ UNCHANGED <<ledgerVars, state, now, nextID, goFixed>>

\* the body of selectedNode.Resources.Release(containerID) and the return
ScheduleRelease(t) ==
    /\ pc[t] = "release"
    /\ LET n == frame[t].node
       IN  /\ allocatedCPU' = [allocatedCPU EXCEPT
                  ![n] = MapDelete(@, frame[t].key)]
           /\ allocatedMemory' = [allocatedMemory EXCEPT
                  ![n] = MapDelete(@, frame[t].key)]
           /\ locks' = [locks EXCEPT !.ledger[n] = 0, !.cluster = 0]
    /\ Idle(t)
    /\ UNCHANGED <<state, now, nextID, goFixed>>

\* the body of Manager.AddContainer and the return of Schedule
ScheduleAdd(t) ==
    /\ pc[t] = "add"
    /\ LET f == frame[t]
           n == f.node
           info == [ID |-> f.id, Name |-> f.key, CPU |-> f.spec.CPU,
                    MemoryMB |-> f.spec.Memory, CreatedAt |-> f.at,
                    TTL |-> f.ttl]
       IN  /\ state' = [state EXCEPT ![n] = MapSet(@, f.id, info)]
           /\ locks' = [locks EXCEPT !.manager[n] = 0, !.cluster = 0]
    /\ Idle(t)
    /\ UNCHANGED <<ledgerVars, now, nextID, goFixed>>

\* ---- Manager.TerminateContainer, called by the cluster and by the sweep ----

\* A sweep that ends at the first TerminateContainer that fails.
TerminateReturn_SweepStops(f, err) ==
    IF f.op = "cleanupExpiredContainers"
    THEN IF err = ""
         THEN [pc |-> "relock", unlocked |-> FALSE,
               frame |-> [f EXCEPT !.key = "", !.err = err]]
         ELSE [pc |-> "idle", unlocked |-> FALSE, frame |-> NoFrame]
    ELSE IF err = ""
    THEN [pc |-> "crelease.lock", unlocked |-> FALSE,
          frame |-> [f EXCEPT !.key = ""]]
    ELSE IF Tail(f.order) # << >>
    THEN [pc |-> "term.lock", unlocked |-> FALSE,
          frame |-> [f EXCEPT !.order = Tail(f.order),
                              !.node = Head(Tail(f.order)), !.key = ""]]
    ELSE [pc |-> "idle", unlocked |-> TRUE, frame |-> NoFrame]

\* Manager.TerminateContainer returns err to the caller with locals f: the
\* sweep keeps err and locks again; the cluster's loop releases and returns on nil, goes
\* to the next node otherwise and returns not-found after the last.
TerminateReturn(f, err) ==
    IF f.op = "cleanupExpiredContainers"
    THEN [pc |-> "relock", unlocked |-> FALSE,
          frame |-> [f EXCEPT !.key = "", !.err = err]]
    ELSE IF err = ""
    THEN [pc |-> "crelease.lock", unlocked |-> FALSE,
          frame |-> [f EXCEPT !.key = ""]]
    ELSE IF Tail(f.order) # << >>
    THEN [pc |-> "term.lock", unlocked |-> FALSE,
          frame |-> [f EXCEPT !.order = Tail(f.order),
                              !.node = Head(Tail(f.order)), !.key = ""]]
    ELSE [pc |-> "idle", unlocked |-> TRUE, frame |-> NoFrame]

\* The goroutine leaves Manager.TerminateContainer with err: the deferred
\* m.mutex.Unlock() and what the caller does next.
LeaveTerminate(t, err) ==
    LET r == TerminateReturn(frame[t], err)
    IN  /\ locks' = [locks EXCEPT !.manager[frame[t].node] = 0,
                                  !.cluster = IF r.unlocked THEN 0 ELSE @]
        /\ Goto(t, r.pc, r.frame)

\* info, exists := m.state[id]
TerminateLookup(t) ==
    /\ pc[t] = "term.look"
    /\ LET f == frame[t]
       IN  IF f.id \in DOMAIN state[f.node]
           THEN /\ Goto(t, "stop", [f EXCEPT !.key = state[f.node][f.id].Name])
                /\ UNCHANGED locks
           ELSE LeaveTerminate(t, "container not found")
    /\ UNCHANGED <<ledgerVars, state, now, nextID, goFixed>>

\* m.docker.StopContainer
TerminateStop(t, ok) ==
    /\ pc[t] = "stop"
    /\ IF ok
       THEN Goto(t, "mremove", frame[t]) /\ UNCHANGED locks
       ELSE LeaveTerminate(t, "stop error")
    /\ UNCHANGED <<ledgerVars, state, now, nextID, goFixed>>

\* m.docker.RemoveContainer
TerminateRemove(t, ok) ==
    /\ pc[t] = "mremove"
    /\ IF ok
       THEN Goto(t, "mrelease.lock", frame[t]) /\ UNCHANGED locks
       ELSE LeaveTerminate(t, "remove error")
    /\ UNCHANGED <<ledgerVars, state, now, nextID, goFixed>>

\* the body of m.resources.Release(info.Name), delete(m.state, id), return
TerminateRelease(t) ==
    /\ pc[t] = "mrelease"
    /\ LET f == frame[t]
           n == f.node
           r == TerminateReturn(f, "")
       IN  /\ allocatedCPU' = [allocatedCPU EXCEPT ![n] = MapDelete(@, f.key)]
           /\ allocatedMemory' = [allocatedMemory EXCEPT
                  ![n] = MapDelete(@, f.key)]
           /\ state' = [state EXCEPT ![n] = MapDelete(@, f.id)]
           /\ locks' = [locks EXCEPT !.ledger[n] = 0, !.manager[n] = 0]
           /\ Goto(t, r.pc, r.frame)
    /\ UNCHANGED <<now, nextID, goFixed>>

\* ---- ClusterManager.TerminateContainer ----

\* cm.mu.Lock() and the call of the first node's Manager.TerminateContainer
BeginTerminate(t, id, order) ==
    /\ t \in Handlers
    /\ pc[t] = "idle"
    /\ id \in GoIDs
    /\ MutexFree(locks.cluster)
    /\ locks' = [locks EXCEPT !.cluster = t]
    /\ Goto(t, "term.lock",
            [NoFrame EXCEPT !.op = "TerminateContainer", !.id = id,
                            !.order = order, !.node = Head(order)])
    /\ UNCHANGED <<ledgerVars, state, now, nextID, goFixed>>

\* the body of node.Resources.Release(id) and return nil
ClusterRelease(t) ==
    /\ pc[t] = "crelease"
    /\ LET n == frame[t].node
       IN  /\ allocatedCPU' = [allocatedCPU EXCEPT
                  ![n] = MapDelete(@, frame[t].id)]
           /\ allocatedMemory' = [allocatedMemory EXCEPT
                  ![n] = MapDelete(@, frame[t].id)]
           /\ locks' = [locks EXCEPT !.ledger[n] = 0, !.cluster = 0]
    /\ Idle(t)
    /\ UNCHANGED <<state, now, nextID, goFixed>>

\* ---- Manager.cleanupExpiredContainers ----

\* A sweep that calls TerminateContainer with m.mutex still locked.
SweepUnlock_Keeps(l, n) == l

\* m.mutex.Unlock() before the sweep's call of TerminateContainer
SweepUnlock(l, n) == [l EXCEPT !.manager[n] = 0]

\* The ticker fired at time at, now := time.Now(), and m.mutex.Lock()
\* returns now.
BeginSweep(t, at) ==
    /\ t \notin Handlers
    /\ pc[t] = "idle"
    /\ at <= now
    /\ MutexFree(locks.manager[SweeperNode(t)])
    /\ locks' = [locks EXCEPT !.manager[SweeperNode(t)] = t]
    /\ Goto(t, "sweep.loop",
            [NoFrame EXCEPT !.op = "cleanupExpiredContainers",
                            !.node = SweeperNode(t), !.at = at])
    /\ UNCHANGED <<ledgerVars, state, now, nextID, goFixed>>

\* The range loop up to its next expired record: unlock and call
\* TerminateContainer on it, or, with none left, return (deferred Unlock).
SweepLoop(t) ==
    /\ pc[t] = "sweep.loop"
    /\ LET f == frame[t]
           n == f.node
           expired == {id \in DOMAIN state[n] \ f.visited :
                          Expired(state[n][id], f.at)}
       IN  IF expired = {}
           THEN /\ locks' = [locks EXCEPT !.manager[n] = 0]
                /\ Idle(t)
           ELSE \E id \in expired :
                   /\ locks' = SweepUnlock(locks, n)
                   /\ Goto(t, "term.lock",
                           [f EXCEPT !.id = id, !.visited = @ \cup {id}])
    /\ UNCHANGED <<ledgerVars, state, now, nextID, goFixed>>

\* ---- ClusterManager.ListAllContainers and GetContainerStatus ----

\* cm.mu.Lock() and the call of the first node's ListActiveContainers
BeginList(t, order) ==
    /\ t \in Handlers
    /\ pc[t] = "idle"
    /\ MutexFree(locks.cluster)
    /\ locks' = [locks EXCEPT !.cluster = t]
    /\ Goto(t, "list.lock",
            [NoFrame EXCEPT !.op = "ListAllContainers", !.order = order,
                            !.node = Head(order)])
    /\ UNCHANGED <<ledgerVars, state, now, nextID, goFixed>>

\* The body of Manager.ListActiveContainers or Manager.GetContainerStatus
\* and what follows: the next node of the list, or the return.
ManagerRead(t) ==
    /\ pc[t] \in {"list", "mstatus"}
    /\ LET f == frame[t]
       IN  IF pc[t] = "list" /\ Tail(f.order) # << >>
           THEN /\ locks' = [locks EXCEPT !.manager[f.node] = 0]
                /\ Goto(t, "list.lock",
                        [f EXCEPT !.order = Tail(f.order),
                                  !.node = Head(Tail(f.order))])
           ELSE /\ locks' = [locks EXCEPT !.manager[f.node] = 0,
                                          !.cluster = IF pc[t] = "list"
                                                      THEN 0 ELSE @]
                /\ Idle(t)
    /\ UNCHANGED <<ledgerVars, state, now, nextID, goFixed>>

\* cm.mu.Lock() of GetContainerStatus
BeginStatus(t, id) ==
    /\ t \in Handlers
    /\ pc[t] = "idle"
    /\ id \in GoIDs
    /\ MutexFree(locks.cluster)
    /\ locks' = [locks EXCEPT !.cluster = t]
    /\ Goto(t, "status", [NoFrame EXCEPT !.op = "GetContainerStatus",
                                         !.id = id])
    /\ UNCHANGED <<ledgerVars, state, now, nextID, goFixed>>

\* nodeName, ok := cm.assignments[id]; cm.mu.Unlock(); the two lookups
StatusLookup(t) ==
    /\ pc[t] = "status"
    /\ locks' = [locks EXCEPT !.cluster = 0]
    /\ LET f == frame[t]
       IN  IF f.id \in DOMAIN assignments /\ assignments[f.id] \in Nodes
           THEN Goto(t, "mstatus.lock", [f EXCEPT !.node = assignments[f.id]])
           ELSE Idle(t)
    /\ UNCHANGED <<ledgerVars, state, now, nextID, goFixed>>

\* ---- time.Now() ----

\* Time passes, by more than the ttl: what was created before has expired.
Elapse ==
    /\ now = 0
    /\ now' = MaxTime
    /\ UNCHANGED <<ledgerVars, state, nextID, locks, pc, frame, goFixed>>

-----------------------------------------------------------------------------
(* Specification of the goroutines *)

NextGo ==
    \/ \E t \in Threads : MutexLock(t)
    \/ \E t \in Threads : LedgerLock(t)
    \/ \E t \in Threads, order \in NodeOrders :
          BeginSchedule(t, GoRequest, GoTTL, order)
    \/ \E t \in Threads : ScheduleCanAllocate(t)
    \/ \E t \in Threads : ScheduleCPUSum(t)
    \/ \E t \in Threads : ScheduleMemorySum(t)
    \/ \E t \in Threads : ScheduleAllocate(t)
    \/ \E t \in Threads, ok \in BOOLEAN : ScheduleCreate(t, ok)
    \/ \E t \in Threads, ok \in BOOLEAN : ScheduleStart(t, ok)
    \/ \E t \in Threads, ok \in BOOLEAN : ScheduleRemove(t, ok)
    \/ \E t \in Threads : ScheduleRelease(t)
    \/ \E t \in Threads : ScheduleAdd(t)
    \/ \E t \in Threads, id \in BackendIDs, order \in NodeOrders :
          BeginTerminate(t, id, order)
    \/ \E t \in Threads : TerminateLookup(t)
    \/ \E t \in Threads, ok \in BOOLEAN : TerminateStop(t, ok)
    \/ \E t \in Threads, ok \in BOOLEAN : TerminateRemove(t, ok)
    \/ \E t \in Threads : TerminateRelease(t)
    \/ \E t \in Threads : ClusterRelease(t)
    \/ \E t \in Threads, at \in {0, MaxTime} : BeginSweep(t, at)
    \/ \E t \in Threads : SweepLoop(t)
    \/ \E t \in Threads, order \in NodeOrders : BeginList(t, order)
    \/ \E t \in Threads : ManagerRead(t)
    \/ \E t \in Threads, id \in BackendIDs : BeginStatus(t, id)
    \/ \E t \in Threads : StatusLookup(t)
    \/ Elapse

SpecGo == Init /\ [][NextGo]_vars

-----------------------------------------------------------------------------
(* Claims about the goroutines *)

\* The mutexes goroutine t holds, by layer.
HoldsCluster(t) == locks.cluster = t
HoldsManager(t) == \E n \in Nodes : locks.manager[n] = t
HoldsLedger(t) == \E n \in Nodes : locks.ledger[n] = t

\* Goroutine t is inside a Lock() of a mutex that goroutine u holds.
WaitsFor(t, u) ==
    \/ pc[t] \in ManagerLockPCs /\ locks.manager[frame[t].node] = u
    \/ pc[t] \in LedgerLockPCs /\ locks.ledger[frame[t].node] = u

\* Every Lock() takes a mutex of a layer below all those the goroutine holds.
LockOrder ==
    \A t \in Threads :
        /\ (locks'.cluster = t /\ locks.cluster # t)
              => ~HoldsManager(t) /\ ~HoldsLedger(t)
        /\ \A n \in Nodes :
              (locks'.manager[n] = t /\ locks.manager[n] # t)
                 => ~HoldsManager(t) /\ ~HoldsLedger(t)
        /\ \A n \in Nodes :
              (locks'.ledger[n] = t /\ locks.ledger[n] # t) => ~HoldsLedger(t)

\* No set of goroutines waits for one another, and none for itself.
NoWaitCycle ==
    \A S \in SUBSET Threads :
        S # {} => \E t \in S : \A u \in S : ~WaitsFor(t, u)

\* The sweep calls TerminateContainer without m.mutex, is back in its loop
\* with m.mutex, and has returned with nothing.
SweepLocking ==
    \A t \in Threads \ Handlers :
        /\ pc[t] = "term.lock" => locks.manager[SweeperNode(t)] # t
        /\ pc[t] = "relock" => ~HoldsManager(t)
        /\ pc[t] = "sweep.loop" => locks.manager[SweeperNode(t)] = t
        /\ pc[t] = "idle" => ~HoldsManager(t) /\ ~HoldsLedger(t)
        /\ ~HoldsCluster(t)

\* C17: under every interleaving of Schedule, the cluster's
\* TerminateContainer, GetContainerStatus and ListAllContainers and the two
\* expiration sweeps, no goroutines wait for one another (no deadlock),
\* every Lock() takes a mutex below the ones already held in the order
\* cm.mu, m.mutex, rm.mu, no goroutine locks a mutex it holds, the sweep
\* does not hold m.mutex when it calls TerminateContainer, and it holds
\* nothing once cleanupExpiredContainers has returned.
C17_DeadlockFree ==
    /\ [](NoWaitCycle /\ SweepLocking)
    /\ [][LockOrder]_vars

\* A sweep is in the backend stop of its TerminateContainer, holding
\* m.mutex again, while a handler that holds cm.mu waits for that m.mutex.
C17_Witness ==
    \E s \in Threads \ Handlers, h \in Handlers :
        /\ pc[s] = "stop"
        /\ locks.manager[frame[s].node] = s
        /\ HoldsCluster(h)
        /\ WaitsFor(h, s)

\* C18: on one node, no goroutine is in the backend create or start of a
\* provisioning (after its reservation, before its record is stored) while
\* another goroutine is in the backend stop or remove of a termination.
C18_ProvisionExcludesTerminate ==
    \A t, u \in Threads :
        ~ /\ pc[t] \in {"create", "start"}
          /\ pc[u] \in {"stop", "mremove"}
          /\ frame[t].node = frame[u].node

\* The positions at which a goroutine is inside Manager.TerminateContainer
\* past its Lock(), and those past a successful lookup.
InTerminate == {"term.look", "stop", "mremove", "mrelease.lock", "mrelease"}
Terminating == InTerminate \ {"term.look"}

\* The k-th id was handed out, no Schedule is still about to store its
\* record, and no node tracks it.
Removed(k) ==
    /\ k <= nextID
    /\ \A n \in Nodes : BackendID(k) \notin DOMAIN state[n]
    /\ \A t \in Threads :
          ~(frame[t].op = "Schedule" /\ frame[t].id = BackendID(k))

\* C21 as stated: when the sweep's TerminateContainer(id) has returned
\* while an explicit TerminateContainer of the same id is under way, the
\* sweep either terminated the workload or observed not-found, the record
\* is absent, and the explicit call is not in the backend stop or remove
\* of that id.
C21_RaceTerminatesOnce ==
    \A s \in Threads \ Handlers, h \in Handlers :
        (/\ pc[s] = "relock"
         /\ frame[h].op = "TerminateContainer"
         /\ frame[h].id = frame[s].id)
        => /\ frame[s].err \in {"", "container not found"}
           /\ frame[s].id \notin DOMAIN state[frame[s].node]
           /\ ~(pc[h] \in Terminating /\ frame[h].node = frame[s].node)

\* Between its lookup and its return a TerminateContainer holds the node's
\* m.mutex, and past a successful lookup the record is there; a sweep whose
\* TerminateContainer returned nil or not-found finds the record gone.
TerminateExclusive ==
    /\ \A t \in Threads :
          pc[t] \in InTerminate => locks.manager[frame[t].node] = t
    /\ \A t \in Threads :
          pc[t] \in Terminating =>
             /\ frame[t].id \in DOMAIN state[frame[t].node]
             /\ frame[t].key = state[frame[t].node][frame[t].id].Name
    /\ \A s \in Threads \ Handlers :
          (pc[s] = "relock" /\ frame[s].err \in {"", "container not found"})
             => frame[s].id \notin DOMAIN state[frame[s].node]

\* A lookup that misses writes nothing, and in a sweep it only leaves err.
NotFoundIsHarmless ==
    \A t \in Threads :
        (/\ pc[t] = "term.look"
         /\ pc'[t] # "term.look"
         /\ frame[t].id \notin DOMAIN state[frame[t].node])
        => /\ UNCHANGED <<ledgerVars, state>>
           /\ t \notin Handlers =>
                 /\ pc'[t] = "relock"
                 /\ frame'[t] = [frame[t] EXCEPT !.err = "container not found"]

\* A record leaves a node only in the last step of the one
\* TerminateContainer that stopped and removed it, together with the
\* reservation under its name; once removed it stays removed.
ReleasedOnce ==
    /\ \A n \in Nodes, k \in 1 .. MaxCalls :
          (BackendID(k) \in DOMAIN state[n]
           /\ BackendID(k) \notin DOMAIN state'[n])
          => /\ \E t \in Threads :
                   /\ pc[t] = "mrelease"
                   /\ pc'[t] # "mrelease"
                   /\ frame[t].node = n
                   /\ frame[t].id = BackendID(k)
             /\ allocatedCPU'[n] =
                    MapDelete(allocatedCPU[n], state[n][BackendID(k)].Name)
             /\ allocatedMemory'[n] =
                    MapDelete(allocatedMemory[n], state[n][BackendID(k)].Name)
    /\ \A k \in 1 .. MaxCalls : Removed(k) => Removed(k)'

\* Back from TerminateContainer, whatever it returned, the sweep locks and
\* is in its loop with the same records behind it, and it returns only when
\* no expired record is left that it has not tried.
SweepGoesOn ==
    \A s \in Threads \ Handlers :
        /\ (pc[s] = "relock" /\ pc'[s] # "relock")
              => /\ pc'[s] = "sweep.loop"
                 /\ frame'[s] = [frame[s] EXCEPT !.id = "", !.err = ""]
        /\ (pc[s] = "sweep.loop" /\ pc'[s] = "idle")
              => \A id \in DOMAIN state[frame[s].node] \ frame[s].visited :
                     ~Expired(state[frame[s].node][id], frame[s].at)

\* C21, with the condition it needs: when the sweep and an explicit
\* TerminateContainer race on one expired id, their backend stop and remove
\* never overlap (each runs under the node's m.mutex); if those of the one
\* that gets there first succeed, the record and its reservation are
\* removed in one step by that one alone, the record stays absent and the
\* other observes not-found and writes nothing; a not-found, like any
\* other error, leaves the sweep in its loop with the remaining records.
C21_RaceTerminatesOnceIfBackendSucceeds ==
    /\ []TerminateExclusive
    /\ [][NotFoundIsHarmless /\ ReleasedOnce /\ SweepGoesOn]_vars

\* The sweep lost the race: its TerminateContainer returned not-found for
\* the id an explicit TerminateContainer has just stopped and removed.
C21_Witness ==
    \E s \in Threads \ Handlers, h \in Handlers :
        /\ pc[s] = "relock"
        /\ frame[s].err = "container not found"
        /\ frame[h].op = "TerminateContainer"
        /\ frame[h].id = frame[s].id
        /\ pc[h] \in {"crelease.lock", "crelease"}

-----------------------------------------------------------------------------
(* The goroutines that write the ledgers, with requests of any size *)

\* What a handler may ask Schedule for: amounts from small to the largest
\* int.
BookingRequests == {GoRequest, ResourceSpec(1, MaxInt)}

NextBooking ==
    \/ \E t \in Threads : MutexLock(t)
    \/ \E t \in Threads : LedgerLock(t)
    \/ \E t \in Threads, r \in BookingRequests, order \in NodeOrders :
          BeginSchedule(t, r, GoTTL, order)
    \/ \E t \in Threads : ScheduleCanAllocate(t)
    \/ \E t \in Threads : ScheduleCPUSum(t)
    \/ \E t \in Threads : ScheduleMemorySum(t)
    \/ \E t \in Threads : ScheduleAllocate(t)
    \/ \E t \in Threads, ok \in BOOLEAN : ScheduleCreate(t, ok)
    \/ \E t \in Threads, ok \in BOOLEAN : ScheduleStart(t, ok)
    \/ \E t \in Threads, ok \in BOOLEAN : ScheduleRemove(t, ok)
    \/ \E t \in Threads : ScheduleRelease(t)
    \/ \E t \in Threads : ScheduleAdd(t)
    \/ \E t \in Threads, id \in BackendIDs, order \in NodeOrders :
          BeginTerminate(t, id, order)
    \/ \E t \in Threads : TerminateLookup(t)
    \/ \E t \in Threads, ok \in BOOLEAN : TerminateStop(t, ok)
    \/ \E t \in Threads, ok \in BOOLEAN : TerminateRemove(t, ok)
    \/ \E t \in Threads : TerminateRelease(t)
    \/ \E t \in Threads : ClusterRelease(t)
    \/ \E t \in Threads, at \in {0, MaxTime} : BeginSweep(t, at)
    \/ \E t \in Threads : SweepLoop(t)
    \/ Elapse

SpecBooking == Init /\ [][NextBooking]_vars

\* C22: with every reservation made through Schedule and no negative
\* amount, a Schedule that is inside the Allocate that follows its node
\* selection finds that the request fits, whatever other Schedule calls,
\* terminations and sweeps did in between: Allocate does not return false.
C22_AllocateAfterSelectionSucceeds ==
    \A t \in Threads :
        pc[t] = "alloc" =>
            Fits(frame[t].node, allocatedCPU[frame[t].node],
                 allocatedMemory[frame[t].node], frame[t].spec)

====
